---- MODULE Spec2Model ----
(***************************************************************************)
(* Model of dexscreener_realtime_data/__main__.py: the binary decoder      *)
(* (handle_double, decode_metrics, clean_string, decode_pair) and the      *)
(* session loop (connect_to_dexscreener, main).                            *)
(*                                                                         *)
(* Conventions.  A bytes object is a sequence of integers 0..255.  Python  *)
(* positions are 0-based, so data[pos] of the source is data[pos + 1]      *)
(* here.  A float is its IEEE-754 binary64 pattern, written as the 8 bytes *)
(* most significant first.  A dict is a function whose domain is its set   *)
(* of keys.  An integer that may exceed 2^31 - 1 (pairCreatedAt) is the    *)
(* pair <<high 16 bits, low 16 bits>>.                                     *)
(***************************************************************************)
EXTENDS Integers, Sequences, FiniteSets, TLC

VARIABLES
    platform,   \* [byteorder, strftimeFails]: what the interpreter's host decides
    \* ---- decode_pair, one call, statement by statement
    input,      \* how the slice under decode was built (history, never read by the code)
    data,       \* decode_pair's argument
    dpc,        \* position inside decode_pair
    pos,        \* decode_pair's cursor
    pair,       \* decode_pair's dict under construction
    fieldIdx,   \* index (1..6) of the next name of `fields`
    metrics,    \* what decode_metrics returned
    metricsPos, \* the cursor decode_metrics was called with
    result,     \* what the call of decode_pair produced
    \* ---- main / connect_to_dexscreener
    pc,         \* position of the session coroutine
    backoff,    \* main's local
    failures,   \* consecutive connection failures so far (history)
    delay,      \* the argument of the asyncio.sleep in progress, 0 when none
    message,    \* the message being processed by the receive loop
    calls,      \* start offsets of the slices handed to decode_pair for `message`
    line        \* what was printed for `message`

decodeVars == <<input, data, dpc, pos, pair, fieldIdx, metrics, metricsPos, result>>
sessionVars == <<pc, backoff, failures, delay, message, calls, line>>
vars == <<platform, decodeVars, sessionVars>>

----------------------------------------------------------------------------
(* Program constants *)

SliceSize == 512
MetricsSize == 64
MaxStrLen == 100
BackoffCap == 60
RetrySleep == 1
Year2100 == <<62598, 22272>>      \* 4102444800 = 62598 * 65536 + 22272

fields == <<"chain", "protocol", "pairAddress",
            "baseTokenName", "baseTokenSymbol", "baseTokenAddress">>

MetricNames == <<"price", "priceUsd", "priceChangeH24", "liquidityUsd",
                 "volumeH24", "fdv", "timestamp">>

MagicHeader == <<0, 10, 49, 46, 51, 46, 48, 10>>      \* b"\x00\n1.3.0\n"
PairsToken == <<112, 97, 105, 114, 115>>              \* b"pairs"
PingText == <<112, 105, 110, 103>>                    \* "ping"

----------------------------------------------------------------------------
(* Small helpers *)

Min(a, b) == IF a < b THEN a ELSE b

RECURSIVE Pow2(_)
Pow2(n) == IF n <= 0 THEN 1 ELSE 2 * Pow2(n - 1)

Reverse(s) == [i \in 1..Len(s) |-> s[Len(s) + 1 - i]]

Has(s, c) == \E i \in 1..Len(s) : s[i] = c

EmptyDict == [k \in {} |-> 0]

Put(d, k, v) == [x \in (DOMAIN d) \cup {k} |-> IF x = k THEN v ELSE d[x]]

----------------------------------------------------------------------------
(* Floats: struct's "d", math.isfinite, comparison with 0, int(), str() *)

ZeroFloat == <<0, 0, 0, 0, 0, 0, 0, 0>>

SignBit(d) == d[1] \div 128
BiasedExp(d) == (d[1] % 128) * 16 + (d[2] \div 16)
MantissaIsZero(d) ==
    /\ d[2] % 16 = 0
    /\ \A i \in 3..8 : d[i] = 0

isfinite(d) == BiasedExp(d) # 2047

\* value == 0 as Python compares floats: +0.0 and -0.0 are both equal to 0
EqualsZero(d) == BiasedExp(d) = 0 /\ MantissaIsZero(d)

\* the leading 32 bits of 1.mantissa, as <<high 16, low 16>>
Lead32(d) ==
    << 32768 + (d[2] % 16) * 2048 + d[3] * 8 + (d[4] \div 32),
       (d[4] % 32) * 2048 + d[5] * 8 + (d[6] \div 32) >>

\* int(d) for a finite d with 0 <= d < 2^32: truncation toward zero
TruncInt(d) ==
    LET e == BiasedExp(d) - 1023
        s == 31 - e
        w == Lead32(d)
    IN  IF e < 0 THEN <<0, 0>>
        ELSE IF s >= 16 THEN <<0, w[1] \div Pow2(s - 16)>>
        ELSE << w[1] \div Pow2(s),
                (w[1] % Pow2(s)) * Pow2(16 - s) + (w[2] \div Pow2(s)) >>

WordLess(a, b) == a[1] < b[1] \/ (a[1] = b[1] /\ a[2] < b[2])

\* 0 <= d < 4102444800 for a finite non-zero d
InTimestampRange(d) ==
    LET e == BiasedExp(d) - 1023
    IN  /\ SignBit(d) = 0
        /\ \/ e < 0
           \/ e <= 31 /\ WordLess(TruncInt(d), Year2100)

\* str(x) of a float x.  The text is kept symbolic: repr is injective on
\* finite non-zero floats and always holds a '.', an 'e' or letters, so it is
\* never the literal "0".
FloatStr(d) == <<"repr", d>>

\* a str literal, by its character codes
Lit(codes) == <<"lit", codes>>

Lit0 == Lit(<<48>>)                                   \* "0"

EpochText ==                                          \* "1970-01-01 00:00:00"
    Lit(<<49, 57, 55, 48, 45, 48, 49, 45, 48, 49, 32, 48, 48, 58, 48, 48, 58, 48, 48>>)

\* struct.unpack of one native-order double at 0-based offset `at`; `bo` is
\* the host's byte order
UnpackDouble(bytes, at, bo) ==
    LET raw == SubSeq(bytes, at + 1, at + 8)
    IN  IF bo = "little" THEN Reverse(raw) ELSE raw

----------------------------------------------------------------------------
(* handle_double, decode_metrics *)

handle_double_keeps_nonfinite(value) == value

handle_double(value) ==
    IF ~isfinite(value) THEN ZeroFloat ELSE value

decode_metrics(bytes, start_pos, bo) ==
    IF start_pos + MetricsSize > Len(bytes)
    THEN [metrics |-> EmptyDict, pos |-> start_pos]
    ELSE LET values == [i \in 1..8 |-> UnpackDouble(bytes, start_pos + 8 * (i - 1), bo)]
             cleaned == [i \in 1..7 |-> handle_double(values[i])]
             kept == {i \in 1..7 : ~EqualsZero(cleaned[i])}
             slotOf(k) == CHOOSE i \in 1..7 : MetricNames[i] = k
         IN  [metrics |-> [k \in {MetricNames[i] : i \in kept} |-> cleaned[slotOf(k)]],
              pos |-> start_pos + MetricsSize]

----------------------------------------------------------------------------
(* bytes.decode("utf-8", errors="ignore"), clean_string *)

IsContinuation(b) == 128 <= b /\ b <= 191

\* One- and two-byte forms are decoded; every other byte >= 128 is dropped.
\* (Longer valid forms give code points >= 2048, which line 72 removes just
\* as it removes nothing-at-all, so the text after clean_string is the same.)
Utf8Decode(b) ==
    LET IsLead(i) == /\ 194 <= b[i] /\ b[i] <= 223
                     /\ i < Len(b) /\ IsContinuation(b[i + 1])
        Starts(i) == b[i] < 128 \/ IsLead(i)
        starts == SelectSeq([i \in 1..Len(b) |-> i], Starts)
    IN  [k \in 1..Len(starts) |->
            IF b[starts[k]] < 128 THEN b[starts[k]]
            ELSE (b[starts[k]] - 192) * 64 + (b[starts[k] + 1] - 128)]

Printable(c) == (32 <= c /\ c < 127) \/ c = 9

IsSpace(c) == c = 32 \/ c = 9

\* s.split(sep)[0]
SplitFirst(s, sep) ==
    IF Has(s, sep)
    THEN SubSeq(s, 1, (CHOOSE i \in 1..Len(s) :
                          s[i] = sep /\ \A j \in 1..(i - 1) : s[j] # sep) - 1)
    ELSE s

\* s.strip()
Strip(s) ==
    IF \A i \in 1..Len(s) : IsSpace(s[i]) THEN <<>>
    ELSE LET first == CHOOSE i \in 1..Len(s) :
                          ~IsSpace(s[i]) /\ \A j \in 1..(i - 1) : IsSpace(s[j])
             last == CHOOSE i \in 1..Len(s) :
                          ~IsSpace(s[i]) /\ \A j \in (i + 1)..Len(s) : IsSpace(s[j])
         IN  SubSeq(s, first, last)

clean_string(s) ==
    IF s = <<>> THEN <<>>
    ELSE LET cleaned == SelectSeq(s, Printable)
             cut == IF Has(cleaned, 64) \/ Has(cleaned, 92)
                    THEN SplitFirst(SplitFirst(cleaned, 64), 92)
                    ELSE cleaned
         IN  Strip(cut)

----------------------------------------------------------------------------
(* decode_pair *)

Return(p) == [tag |-> "Record", pair |-> p]
ReturnNone == [tag |-> "None"]
Raise(e) == [tag |-> "Raise", error |-> e]

\* lines 91-92: skip 0x00 / 0x0A bytes from position p on
SkipPrefix(bytes, p) ==
    IF \A q \in p..(Len(bytes) - 1) : bytes[q + 1] \in {0, 10}
    THEN IF p < Len(bytes) THEN Len(bytes) ELSE p
    ELSE CHOOSE q \in p..(Len(bytes) - 1) :
            /\ bytes[q + 1] \notin {0, 10}
            /\ \A r \in p..(q - 1) : bytes[r + 1] \in {0, 10}

ReadField_rejected_keeps_cursor(bytes, p, d, field) ==
    LET str_len == bytes[p + 1]
        p1 == p + 1
    IN  IF str_len = 0 \/ str_len > MaxStrLen \/ p1 + str_len > Len(bytes)
        THEN [pos |-> p1, pair |-> d]
        ELSE LET value == clean_string(Utf8Decode(SubSeq(bytes, p1 + 1, p1 + str_len)))
             IN  [pos |-> p1 + str_len,
                  pair |-> IF value # <<>> THEN Put(d, field, value) ELSE d]

\* lines 108-130: one pass of the body of `for field in fields`
ReadField(bytes, p, d, field) ==
    LET str_len == bytes[p + 1]
        p1 == p + 1
    IN  IF str_len = 0 \/ str_len > MaxStrLen \/ p1 + str_len > Len(bytes)
        THEN [pos |-> p1 + str_len, pair |-> d]
        ELSE LET value == clean_string(Utf8Decode(SubSeq(bytes, p1 + 1, p1 + str_len)))
             IN  [pos |-> p1 + str_len,
                  pair |-> IF value # <<>> THEN Put(d, field, value) ELSE d]

\* lines 104-130: the loop from the i-th name on
RECURSIVE ReadFields(_, _, _, _)
ReadFields(bytes, p, d, i) ==
    IF i > Len(fields) \/ p >= Len(bytes)
    THEN [pos |-> p, pair |-> d]
    ELSE LET r == ReadField(bytes, p, d, fields[i])
         IN  ReadFields(bytes, r.pos, r.pair, i + 1)

\* line 133: (pos + 7) & ~7
Align8(p) == ((p + 7) \div 8) * 8

\* datetime.fromtimestamp(ts).strftime(...), kept symbolic; lines 154-161.
\* `fails` says whether the host's C library refuses the conversion.
FormatTimestamp(ts, fails) ==
    IF fails THEN EpochText ELSE <<"strftime", ts>>

PutIf(d, m, name, key, value) ==
    IF name \in DOMAIN m THEN Put(d, key, value) ELSE d

MapMetrics_no_range_check(d, m, fails) ==
    IF DOMAIN m = {} THEN d
    ELSE LET p1 == PutIf(d, m, "price", "price", FloatStr(m["price"]))
             p2 == PutIf(p1, m, "priceUsd", "priceUsd", FloatStr(m["priceUsd"]))
             p3 == PutIf(p2, m, "priceChangeH24", "priceChange",
                         [h24 |-> FloatStr(m["priceChangeH24"])])
             p4 == PutIf(p3, m, "liquidityUsd", "liquidity",
                         [usd |-> FloatStr(m["liquidityUsd"])])
             p5 == PutIf(p4, m, "volumeH24", "volume",
                         [h24 |-> FloatStr(m["volumeH24"])])
             p6 == PutIf(p5, m, "fdv", "fdv", FloatStr(m["fdv"]))
         IN  IF "timestamp" \in DOMAIN m /\ SignBit(m["timestamp"]) = 0
                  /\ BiasedExp(m["timestamp"]) - 1023 <= 31
             THEN LET ts == TruncInt(m["timestamp"])
                  IN  Put(Put(p6, "pairCreatedAt", ts),
                          "pairCreatedAtFormatted", FormatTimestamp(ts, fails))
             ELSE p6

\* lines 137-161: the metrics written into the pair
MapMetrics(d, m, fails) ==
    IF DOMAIN m = {} THEN d
    ELSE LET p1 == PutIf(d, m, "price", "price", FloatStr(m["price"]))
             p2 == PutIf(p1, m, "priceUsd", "priceUsd", FloatStr(m["priceUsd"]))
             p3 == PutIf(p2, m, "priceChangeH24", "priceChange",
                         [h24 |-> FloatStr(m["priceChangeH24"])])
             p4 == PutIf(p3, m, "liquidityUsd", "liquidity",
                         [usd |-> FloatStr(m["liquidityUsd"])])
             p5 == PutIf(p4, m, "volumeH24", "volume",
                         [h24 |-> FloatStr(m["volumeH24"])])
             p6 == PutIf(p5, m, "fdv", "fdv", FloatStr(m["fdv"]))
         IN  IF "timestamp" \in DOMAIN m /\ InTimestampRange(m["timestamp"])
             THEN LET ts == TruncInt(m["timestamp"])
                  IN  Put(Put(p6, "pairCreatedAt", ts),
                          "pairCreatedAtFormatted", FormatTimestamp(ts, fails))
             ELSE p6

\* pair.get(key, default)
Get(d, key, default) == IF key \in DOMAIN d THEN d[key] ELSE default

Validate_accepts_two(d) ==
    IF Cardinality(DOMAIN d) >= 2
    THEN LET volume == Get(d, "volume", EmptyDict)
             liquidity == Get(d, "liquidity", EmptyDict)
         IN  IF "h24" \notin DOMAIN volume \/ "usd" \notin DOMAIN liquidity
             THEN Raise("KeyError")
             ELSE Return(d)
    ELSE ReturnNone

\* lines 164-177.  `volume` and `liquidity` default to {}, which is a dict, so
\* the subscript on lines 168 and 171 is evaluated and raises KeyError when
\* the key is missing.
Validate(d) ==
    IF Cardinality(DOMAIN d) > 2
    THEN LET price == Get(d, "price", Lit0)
             price_usd == Get(d, "priceUsd", Lit0)
             volume == Get(d, "volume", EmptyDict)
             liquidity == Get(d, "liquidity", EmptyDict)
         IN  IF "h24" \notin DOMAIN volume THEN Raise("KeyError")
             ELSE IF "usd" \notin DOMAIN liquidity THEN Raise("KeyError")
             ELSE IF \E v \in {price, price_usd, volume["h24"], liquidity["usd"]} :
                        v # Lit0
                  THEN Return(d)
                  ELSE ReturnNone
    ELSE ReturnNone

Catch_propagates(outcome) == outcome

\* lines 179-182: except Exception: return None
Catch(outcome) ==
    IF outcome.tag = "Raise" THEN ReturnNone ELSE outcome

\* lines 84-182, the whole call
decode_pair(bytes, host) ==
    LET f == ReadFields(bytes, SkipPrefix(bytes, 0), EmptyDict, 1)
        m == decode_metrics(bytes, Align8(f.pos), host.byteorder)
    IN  Catch(Validate(MapMetrics(f.pair, m.metrics, host.strftimeFails)))

----------------------------------------------------------------------------
(* The slices decode_pair is run on *)

MaxPad == 2          \* leading 0x00 / 0x0A bytes in front of the first field
SweepCut == 3        \* bytes left behind the swept length byte in a cut slice

Zeros(n) == [i \in 1..n |-> 0]
Fill(n) == [i \in 1..n |-> 97 + (i % 26)]

RECURSIVE Concat(_)
Concat(ss) == IF ss = <<>> THEN <<>> ELSE Head(ss) \o Concat(Tail(ss))

Solana == <<115, 111, 108, 97, 110, 97>>
Raydium == <<114, 97, 121, 100, 105, 117, 109>>
Address == [i \in 1..44 |-> 65 + (i % 26)]
TokenName == <<66, 111, 110, 107, 32, 73, 110, 117>>             \* "Bonk Inu"
TokenSymbol == <<66, 79, 78, 75>>
TokenAddress == [i \in 1..44 |-> 97 + (i % 26)]
Chain10 == <<101, 116, 104, 101, 114, 101, 117, 109, 49, 48>>    \* ten characters
DirtyAt == <<115, 111, 108, 64, 110, 97>>                        \* "sol@na"
DirtyBackslash == <<114, 97, 121, 92, 100, 105, 117, 109>>       \* "ray\dium"
DirtySpaces == <<32, 9, 112, 97, 100, 32, 100, 101, 100, 9, 32>> \* " \tpad ded\t "
ControlsOnly == <<1, 2, 31, 127>>
TwoByteForm == <<195, 169, 66>>                                  \* e-acute, "B"
StrayHigh == <<255, 67, 128, 68>>

\* a length-prefixed field: the length byte and the bytes that follow it
F(body) == [len |-> Len(body), body |-> body]
Absent == [len |-> 0, body |-> <<>>]

GoodFields == <<F(Solana), F(Raydium), F(Address), F(TokenName), F(TokenSymbol),
                F(TokenAddress)>>

FieldLists ==
    { GoodFields,
      <<F(Chain10), F(Raydium), F(Address), F(TokenName), F(TokenSymbol), F(TokenAddress)>>,
      <<F(Solana), Absent, F(Address), F(TokenName), F(TokenSymbol), F(TokenAddress)>>,
      <<[len |-> 200, body |-> Fill(200)], F(Raydium), F(Address), F(TokenName),
        F(TokenSymbol), F(TokenAddress)>>,
      <<F(DirtyAt), F(DirtyBackslash), F(DirtySpaces), F(ControlsOnly), F(TwoByteForm),
        F(StrayHigh)>>,
      <<F(Solana), F(Raydium), Absent, Absent, Absent, Absent>>,
      <<F(Solana), Absent, Absent, Absent, Absent, Absent>> }

\* the doubles of the model, most significant byte first
D_1_23 == <<63, 243, 174, 20, 122, 225, 71, 174>>
D_1_25 == <<63, 244, 0, 0, 0, 0, 0, 0>>
D_50000 == <<64, 232, 106, 0, 0, 0, 0, 0>>
D_12000 == <<64, 199, 112, 0, 0, 0, 0, 0>>
D_m2_5 == <<192, 4, 0, 0, 0, 0, 0, 0>>
D_1e300 == <<126, 55, 228, 60, 136, 0, 117, 156>>
D_NaN == <<127, 248, 0, 0, 0, 0, 0, 0>>
D_Inf == <<127, 240, 0, 0, 0, 0, 0, 0>>
D_mInf == <<255, 240, 0, 0, 0, 0, 0, 0>>
D_mZero == <<128, 0, 0, 0, 0, 0, 0, 0>>
D_Tiny == <<0, 0, 0, 0, 0, 0, 0, 1>>                  \* 5e-324, subnormal
D_Half == <<63, 224, 0, 0, 0, 0, 0, 0>>
D_m5 == <<192, 20, 0, 0, 0, 0, 0, 0>>
D_1_7e9 == <<65, 217, 84, 252, 64, 0, 0, 0>>          \* 1700000000.0
D_Y2100 == <<65, 238, 144, 202, 224, 0, 0, 0>>        \* 4102444800.0
D_Y2100mHalf == <<65, 238, 144, 202, 223, 240, 0, 0>> \* 4102444799.5
D_2p32 == <<65, 240, 0, 0, 0, 0, 0, 0>>               \* 4294967296.0

Z == ZeroFloat

\* what the table's floats are, said without looking at their bits
FiniteNonZero ==
    {D_1_23, D_1_25, D_50000, D_12000, D_m2_5, D_1e300, D_Tiny, D_Half, D_m5,
     D_1_7e9, D_Y2100, D_Y2100mHalf, D_2p32}
ZeroOrNonFinite == {Z, D_mZero, D_NaN, D_Inf, D_mInf}
\* the table's floats t with 0 <= t < 4102444800, and int(t) of each
InRangeInt ==
    [d \in {D_1_23, D_1_25, D_50000, D_12000, D_Tiny, D_Half, D_1_7e9, D_Y2100mHalf} |->
        CASE d = D_1_23 -> <<0, 1>>
          [] d = D_1_25 -> <<0, 1>>
          [] d = D_50000 -> <<0, 50000>>
          [] d = D_12000 -> <<0, 12000>>
          [] d = D_Tiny -> <<0, 0>>
          [] d = D_Half -> <<0, 0>>
          [] d = D_1_7e9 -> <<25939, 61696>>
          [] d = D_Y2100mHalf -> <<62598, 22271>>]

\* price, priceUsd, priceChangeH24, liquidityUsd, volumeH24, fdv, timestamp, reserved
ScenarioA == <<D_1_23, D_1_25, Z, D_50000, D_12000, Z, Z, Z>>
AllZero == <<Z, Z, Z, Z, Z, Z, Z, Z>>
PriceOnly == <<D_1_23, Z, Z, Z, Z, Z, Z, Z>>
FullBlock == <<D_1_23, D_1_25, D_m2_5, D_50000, D_12000, D_1e300, D_1_7e9, D_1_25>>

Blocks ==
    { ScenarioA, AllZero, PriceOnly, FullBlock,
      <<Z, Z, Z, Z, D_12000, Z, Z, Z>>,
      <<Z, Z, Z, D_50000, Z, Z, D_1_7e9, Z>>,
      <<D_NaN, D_Inf, D_mInf, D_50000, D_12000, D_mZero, D_m5, D_NaN>>,
      <<D_NaN, D_Inf, D_mInf, D_NaN, D_Inf, D_mZero, D_1_7e9, Z>>,
      <<Z, Z, Z, D_50000, D_12000, Z, D_Y2100, Z>>,
      <<Z, Z, D_Tiny, D_50000, D_12000, Z, D_Y2100mHalf, Z>>,
      <<Z, Z, Z, D_Tiny, D_12000, D_Half, D_Half, Z>>,
      <<Z, D_1_25, Z, D_50000, D_12000, Z, D_Tiny, Z>>,
      <<D_1_23, Z, Z, D_50000, D_12000, Z, D_2p32, Z>>,
      <<D_1_23, Z, Z, D_50000, D_12000, Z, D_1e300, Z>> }

Pads == {[i \in 1..n |-> IF i % 2 = 1 THEN 0 ELSE 10] : n \in 0..MaxPad}

\* the bytes in front of the metrics block, and the whole slice without cut
SliceHead(inp) ==
    inp.pad \o Concat([i \in 1..Len(inp.flds) |-> <<inp.flds[i].len>> \o inp.flds[i].body])

BlockStart(inp) == Align8(Len(SliceHead(inp)))

\* struct.pack of one double in the byte order `bo`
Pack(d, bo) == IF bo = "little" THEN Reverse(d) ELSE d

SliceBytes(inp, bo) ==
    LET head == SliceHead(inp)
        whole == head \o Zeros(BlockStart(inp) - Len(head))
                      \o Concat([i \in 1..8 |-> Pack(inp.block[i], bo)])
    IN  IF Len(whole) >= inp.size
        THEN SubSeq(whole, 1, inp.size)
        ELSE whole \o Zeros(inp.size - Len(whole))

Input(pad, flds, block, size) ==
    [pad |-> pad, flds |-> flds, block |-> block, size |-> size]

SweepFields(L, n) ==
    <<F(Solana), [len |-> L, body |-> Fill(n)], F(Raydium), F(Address), F(TokenName),
      F(TokenSymbol)>>

Inputs ==
    \* every block behind the well-formed fields, behind every padding
    {Input(p, GoodFields, b, SliceSize) : p \in Pads, b \in Blocks}
    \* every field list in front of four of the blocks
    \cup {Input(<<>>, f, b, SliceSize) :
             f \in FieldLists, b \in {ScenarioA, AllZero, PriceOnly, FullBlock}}
    \* six fields that all sanitize to nothing, in front of liquidity and volume
    \cup {Input(<<>>, [i \in 1..6 |-> F(ControlsOnly)], b, SliceSize) :
             b \in {<<Z, Z, Z, D_50000, D_12000, Z, Z, Z>>, FullBlock}}
    \* a short trailing slice: cut anywhere from empty to one byte short of the block
    \cup {Input(<<>>, GoodFields, FullBlock, n) :
             n \in {0, 1, 7, 48, MetricsSize - 1,
                    BlockStart(Input(<<>>, GoodFields, FullBlock, 0)) + MetricsSize - 1,
                    BlockStart(Input(<<>>, GoodFields, FullBlock, 0)) + MetricsSize}}
    \* every length byte as the second field, its bytes all there or cut short
    \cup {Input(<<>>, SweepFields(L, L), ScenarioA, SliceSize) : L \in 0..255}
    \cup {Input(<<>>, SweepFields(L, Min(L, SweepCut)), ScenarioA,
                Len(Solana) + 2 + SweepCut) : L \in 0..255}

Platforms == [byteorder : {"little", "big"}, strftimeFails : BOOLEAN]

----------------------------------------------------------------------------
(* decode_pair, statement by statement *)

SessionIdle ==
    /\ pc = "idle"
    /\ backoff = 1
    /\ failures = 0
    /\ delay = 0
    /\ message = <<>>
    /\ calls = <<>>
    /\ line = [tag |-> "NoLine"]

DecodeInit ==
    /\ platform \in Platforms
    /\ input \in Inputs
    /\ data = SliceBytes(input, platform.byteorder)
    /\ dpc = "start"
    /\ pos = 0
    /\ pair = EmptyDict
    /\ fieldIdx = 1
    /\ metrics = EmptyDict
    /\ metricsPos = 0
    /\ result = [tag |-> "Running"]
    /\ SessionIdle

\* lines 87-92
DSkipPrefix ==
    /\ dpc = "start"
    /\ pos' = SkipPrefix(data, 0)
    /\ pair' = EmptyDict
    /\ fieldIdx' = 1
    /\ dpc' = "fields"
    /\ UNCHANGED <<platform, input, data, metrics, metricsPos, result, sessionVars>>

\* lines 104-130, one iteration
DReadField ==
    /\ dpc = "fields"
    /\ fieldIdx <= Len(fields)
    /\ pos < Len(data)
    /\ LET r == ReadField(data, pos, pair, fields[fieldIdx])
       IN  /\ pos' = r.pos
           /\ pair' = r.pair
    /\ fieldIdx' = fieldIdx + 1
    /\ UNCHANGED <<platform, input, data, dpc, metrics, metricsPos, result, sessionVars>>

\* lines 104-106: the names are exhausted, or the cursor is at or past the end
DFieldsEnd ==
    /\ dpc = "fields"
    /\ fieldIdx > Len(fields) \/ pos >= Len(data)
    /\ dpc' = "metrics"
    /\ UNCHANGED <<platform, input, data, pos, pair, fieldIdx, metrics, metricsPos,
                   result, sessionVars>>

\* lines 133-161
DMetrics ==
    /\ dpc = "metrics"
    /\ LET m == decode_metrics(data, Align8(pos), platform.byteorder)
       IN  /\ metricsPos' = Align8(pos)
           /\ metrics' = m.metrics
           /\ pos' = m.pos
           /\ pair' = MapMetrics(pair, m.metrics, platform.strftimeFails)
    /\ dpc' = "validate"
    /\ UNCHANGED <<platform, input, data, fieldIdx, result, sessionVars>>

\* lines 164-182
DValidate ==
    /\ dpc = "validate"
    /\ result' = Catch(Validate(pair))
    /\ dpc' = "done"
    /\ UNCHANGED <<platform, input, data, pos, pair, fieldIdx, metrics, metricsPos,
                   sessionVars>>

DecodeNext == DSkipPrefix \/ DReadField \/ DFieldsEnd \/ DMetrics \/ DValidate

DecodeSpec == DecodeInit /\ [][DecodeNext]_vars

----------------------------------------------------------------------------
(* Properties of decode_pair, checked under DecodeSpec *)

EconomicKeys == {"price", "priceUsd", "volume", "liquidity"}

\* the float behind a value of one of the economic keys
EconomicFloat(p, k) ==
    IF k = "volume" THEN p[k]["h24"][2]
    ELSE IF k = "liquidity" THEN p[k]["usd"][2]
    ELSE p[k][2]

\* more than two populated keys, and an economic key holding a non-zero value
PassesValidation(p) ==
    /\ Cardinality(DOMAIN p) > 2
    /\ \E k \in EconomicKeys \cap DOMAIN p : EconomicFloat(p, k) \in FiniteNonZero

\* C1: whenever the decoded candidate has more than two populated keys and at
\* least one of price, priceUsd, volume.h24, liquidity.usd is present,
\* decode_pair returns that Record.
C1_AnyEconomicMetricSuffices ==
    (dpc = "done" /\ Cardinality(DOMAIN pair) > 2 /\ EconomicKeys \cap DOMAIN pair # {})
        => result = Return(pair)

\* C2: every Record decode_pair returns has more than two populated keys and a
\* non-zero economic metric; a candidate whose metric slots are all zero, or
\* that has at most two populated keys, yields no Record.
C2_ReturnedRecordsAreValid ==
    dpc = "done" =>
        /\ result.tag = "Record" => PassesValidation(result.pair)
        /\ (metrics = EmptyDict \/ Cardinality(DOMAIN pair) <= 2) => result.tag = "None"

C2_Witness ==
    /\ dpc = "done"
    /\ Cardinality(DOMAIN pair) = 2
    /\ {"volume", "liquidity"} \subseteq DOMAIN pair
    /\ result.tag = "None"

\* the slice holds six well-formed fields, the padding, and a whole metrics
\* block with a non-zero price
CleanText(t) ==
    /\ Len(t) \in 1..MaxStrLen
    /\ \A i \in 1..Len(t) : 32 <= t[i] /\ t[i] < 127 /\ t[i] \notin {64, 92}
    /\ t[1] # 32 /\ t[Len(t)] # 32

WellFormed(inp) ==
    /\ Len(inp.flds) = 6
    /\ \A i \in 1..6 : inp.flds[i].len = Len(inp.flds[i].body) /\ CleanText(inp.flds[i].body)
    /\ inp.block[1] \in FiniteNonZero
    /\ inp.size >= BlockStart(inp) + MetricsSize

\* C5: a slice holding six well-formed text fields, the padding and a metrics
\* block with a non-zero price decodes to a Record whose six text keys hold
\* the six texts in order.
C5_WellFormedSliceDecodes ==
    (dpc = "done" /\ WellFormed(input)) =>
        /\ result.tag = "Record"
        /\ \A i \in 1..6 : /\ fields[i] \in DOMAIN result.pair
                           /\ result.pair[fields[i]] = input.flds[i].body

\* C6: decode_pair never raises, whatever the slice; an internal failure ends
\* in None, and a result that is not None is the validated Record.
C6_NeverRaises ==
    /\ result.tag \in {"Running", "None", "Record"}
    /\ dpc = "done" =>
        /\ result.tag # "Running"
        /\ result.tag = "Record" => result.pair = pair /\ PassesValidation(pair)

C6_Witness ==
    /\ dpc = "done"
    /\ Cardinality(DOMAIN pair) > 2
    /\ "price" \in DOMAIN pair
    /\ "volume" \notin DOMAIN pair
    /\ result.tag = "None"

\* the keys the six other metrics are written under
KeyOfMetric ==
    [n \in {MetricNames[i] : i \in 1..6} |->
        CASE n = "priceChangeH24" -> "priceChange"
          [] n = "liquidityUsd" -> "liquidity"
          [] n = "volumeH24" -> "volume"
          [] OTHER -> n]

\* the float behind the value written for metric n
MetricFloat(p, n) ==
    LET v == p[KeyOfMetric[n]]
    IN  IF n = "liquidityUsd" THEN v["usd"][2]
        ELSE IF n \in {"priceChangeH24", "volumeH24"} THEN v["h24"][2]
        ELSE v[2]

\* the block decode_metrics read is the one the slice was built with
ReadsBuiltBlock ==
    /\ dpc \in {"validate", "done"}
    /\ metricsPos = BlockStart(input)
    /\ Len(data) >= metricsPos + MetricsSize

\* C8: each of the seven named slots is reported exactly when its value is
\* finite and non-zero, and then with that value; with fewer than 64 bytes at
\* the cursor nothing is reported and the cursor stays.
C8_MetricIffFiniteNonZero ==
    /\ ReadsBuiltBlock =>
          /\ \A i \in 1..7 :
                /\ MetricNames[i] \in DOMAIN metrics <=> input.block[i] \in FiniteNonZero
                /\ MetricNames[i] \in DOMAIN metrics => metrics[MetricNames[i]] = input.block[i]
          /\ pos = metricsPos + MetricsSize
    /\ (dpc \in {"validate", "done"} /\ Len(data) < metricsPos + MetricsSize) =>
          /\ metrics = EmptyDict
          /\ pos = metricsPos
    /\ (dpc = "done" /\ result.tag = "Record") =>
          \A n \in DOMAIN KeyOfMetric :
              KeyOfMetric[n] \in DOMAIN result.pair =>
                  MetricFloat(result.pair, n) \in FiniteNonZero

C8_Witness ==
    /\ ReadsBuiltBlock
    /\ input.block[1] = D_NaN /\ input.block[2] = D_Inf /\ input.block[6] = D_mZero
    /\ DOMAIN metrics = {"liquidityUsd", "volumeH24", "timestamp"}

\* C9: in a returned Record pairCreatedAt and pairCreatedAtFormatted come
\* together, exactly when the timestamp is reported and in [0, 4102444800),
\* and then pairCreatedAt is its integer part; the other keys do not depend
\* on the timestamp.
C9_TimestampKeys ==
    (dpc = "done" /\ result.tag = "Record") =>
        LET p == result.pair
            inRange == input.block[7] \in DOMAIN InRangeInt
        IN  /\ "pairCreatedAt" \in DOMAIN p <=> "pairCreatedAtFormatted" \in DOMAIN p
            /\ "pairCreatedAt" \in DOMAIN p =>
                  /\ "timestamp" \in DOMAIN metrics
                  /\ WordLess(p["pairCreatedAt"], Year2100)
            /\ ReadsBuiltBlock =>
                  /\ "pairCreatedAt" \in DOMAIN p <=> inRange
                  /\ inRange => p["pairCreatedAt"] = InRangeInt[input.block[7]]
            /\ \A n \in DOMAIN KeyOfMetric :
                  KeyOfMetric[n] \in DOMAIN p <=> n \in DOMAIN metrics
            /\ \A i \in 1..6 : fields[i] \in DOMAIN p =>
                  p[fields[i]] = clean_string(input.flds[i].body)

C9_Witness ==
    /\ dpc = "done"
    /\ result.tag = "Record"
    /\ input.block[7] = D_Y2100mHalf
    /\ "pairCreatedAt" \in DOMAIN result.pair
    /\ result.pair["pairCreatedAt"] = <<62598, 22271>>

\* C10: reading a field with the cursor inside the slice moves the cursor by
\* 1 + L whatever the length byte L says, keeps what was decoded before, and
\* goes on to the next name.
C10_FieldAdvance ==
    [][(dpc = "fields" /\ fieldIdx <= Len(fields) /\ pos < Len(data)) =>
          /\ pos' = pos + 1 + data[pos + 1]
          /\ fieldIdx' = fieldIdx + 1
          /\ dpc' = "fields"
          /\ \A k \in DOMAIN pair : k \in DOMAIN pair' /\ pair'[k] = pair[k]]_vars

C10_Witness ==
    /\ dpc = "fields"
    /\ fieldIdx = 4
    /\ input.flds[2].len = 200
    /\ pos = Len(Solana) + 1 + 201 + Len(Raydium) + 1
    /\ DOMAIN pair = {"chain", "pairAddress"}

----------------------------------------------------------------------------
(* The messages the session receives *)

MaxSlices == 2       \* whole 512-byte slices in a record section
MaxFailures == 7     \* consecutive connection failures followed

SliceA == Input(<<>>, GoodFields, ScenarioA, SliceSize)
SliceZero == Input(<<0, 10>>, GoodFields, AllZero, SliceSize)
SlicePriceOnly == Input(<<>>, GoodFields, PriceOnly, SliceSize)
SliceFull == Input(<<0>>, GoodFields, FullBlock, SliceSize)

\* a short last slice: cut behind the metrics block, or inside the text fields
ShortTails ==
    { <<>>,
      <<Input(<<>>, GoodFields, FullBlock, BlockStart(SliceA) + MetricsSize + 16)>>,
      <<Input(<<>>, GoodFields, ScenarioA, 100)>> }

RECURSIVE SeqsUpTo(_, _)
SeqsUpTo(S, n) ==
    IF n = 0 THEN {<<>>}
    ELSE LET shorter == SeqsUpTo(S, n - 1)
         IN  shorter \cup {Append(q, x) : q \in shorter, x \in S}

Sections ==
    {whole \o tail : whole \in SeqsUpTo({SliceA, SliceZero}, MaxSlices), tail \in ShortTails}
    \cup {<<SlicePriceOnly, SliceFull>>, <<SliceFull, SliceA>>}

SectionBytes(sec, bo) == Concat([i \in 1..Len(sec) |-> SliceBytes(sec[i], bo)])

Bytes(body) == [kind |-> "bytes", body |-> body]
Text(body) == [kind |-> "text", body |-> body]

OtherHeader == <<0, 10, 49, 46, 50, 46, 48, 10>>      \* b"\x00\n1.2.0\n"
Filler == <<1, 112, 97, 105, 114, 7>>                 \* holds b"pair", not b"pairs"

MessagesFor(bo) ==
    \* well-formed frames
    {Bytes(MagicHeader \o Filler \o PairsToken \o SectionBytes(sec, bo)) : sec \in Sections}
    \* the token right behind the header; the token twice
    \cup {Bytes(MagicHeader \o PairsToken \o SectionBytes(<<SliceA>>, bo)),
          Bytes(MagicHeader \o PairsToken \o Filler \o PairsToken
                    \o SectionBytes(<<SliceA, SliceFull>>, bo))}
    \* no header, another header, no token, too short for the header
    \cup {Bytes(Filler \o PairsToken \o SectionBytes(<<SliceA>>, bo)),
          Bytes(OtherHeader \o PairsToken \o SectionBytes(<<SliceA>>, bo)),
          Bytes(MagicHeader \o Filler \o SectionBytes(<<SliceA>>, bo)),
          Bytes(MagicHeader \o Filler),
          Bytes(PingText),
          Bytes(<<>>)}
    \cup {Text(PingText), Text(PairsToken)}

\* the messages of either byte order, built once
MessagesLittle == MessagesFor("little")
MessagesBig == MessagesFor("big")
MessagesOf(bo) == IF bo = "little" THEN MessagesLittle ELSE MessagesBig

Messages == MessagesOf(platform.byteorder)

----------------------------------------------------------------------------
(* connect_to_dexscreener: the receive loop, lines 219-252 *)

startswith(m, prefix) ==
    Len(m) >= Len(prefix) /\ SubSeq(m, 1, Len(prefix)) = prefix

OccursAt(m, tok, i) ==
    i + Len(tok) <= Len(m) /\ SubSeq(m, i + 1, i + Len(tok)) = tok

\* bytes.find: the lowest 0-based index, or -1
find(m, tok) ==
    IF \E i \in 0..(Len(m) - Len(tok)) : OccursAt(m, tok, i)
    THEN CHOOSE i \in 0..(Len(m) - Len(tok)) :
            OccursAt(m, tok, i) /\ \A j \in 0..(i - 1) : ~OccursAt(m, tok, j)
    ELSE -1

RecordSectionStart_at_token(pairs_start) == pairs_start

\* line 237
RecordSectionStart(pairs_start) == pairs_start + 5

\* message[pos : pos + 512]
SliceAt(m, p) == SubSeq(m, p + 1, Min(p + SliceSize, Len(m)))

ScanSlices_stops_after_first(m, p, host) ==
    IF p < Len(m)
    THEN <<[start |-> p, pair |-> decode_pair(SliceAt(m, p), host)]>>
    ELSE <<>>

\* lines 238-243: every decode_pair call of the loop, with its result
RECURSIVE ScanSlices(_, _, _)
ScanSlices(m, p, host) ==
    IF p < Len(m)
    THEN <<[start |-> p, pair |-> decode_pair(SliceAt(m, p), host)]>>
             \o ScanSlices(m, p + SliceSize, host)
    ELSE <<>>

\* `if pair:` - None and the empty dict are falsy
Truthy(r) == r.tag = "Record" /\ DOMAIN r.pair # {}

IsKept(c) == Truthy(c.pair)

NoLine == [tag |-> "NoLine"]
\* print(json.dumps({"type": "pairs", "pairs": pairs}))
PairsLine(pairs) == [tag |-> "Line", type |-> "pairs", pairs |-> pairs]

\* lines 227-246 for one bytes message: the decode_pair calls and the output
ProcessBinary(m, host) ==
    IF ~startswith(m, MagicHeader) THEN [calls |-> <<>>, line |-> NoLine]
    ELSE LET pairs_start == find(m, PairsToken)
         IN  IF pairs_start = -1 THEN [calls |-> <<>>, line |-> NoLine]
             ELSE LET scanned == ScanSlices(m, RecordSectionStart(pairs_start), host)
                      kept == SelectSeq(scanned, IsKept)
                      pairs == [i \in 1..Len(kept) |-> kept[i].pair.pair]
                  IN  [calls |-> [i \in 1..Len(scanned) |-> scanned[i].start],
                       line |-> IF pairs # <<>> THEN PairsLine(pairs) ELSE NoLine]

\* ProcessBinary of every bytes message on every host, evaluated once
ProcessedTable ==
    UNION {{<<host, m, ProcessBinary(m.body, host)>> :
               m \in {x \in MessagesOf(host.byteorder) : x.kind = "bytes"}} :
           host \in Platforms}

Processed(m, host) == (CHOOSE r \in ProcessedTable : r[1] = host /\ r[2] = m)[3]

----------------------------------------------------------------------------
(* main and connect_to_dexscreener *)

DecodeIdle ==
    /\ input = Input(<<>>, GoodFields, AllZero, 0)
    /\ data = <<>>
    /\ dpc = "idle"
    /\ pos = 0
    /\ pair = EmptyDict
    /\ fieldIdx = 1
    /\ metrics = EmptyDict
    /\ metricsPos = 0
    /\ result = [tag |-> "Running"]

Init ==
    /\ platform \in Platforms
    /\ SessionIdle
    /\ DecodeIdle

\* line 267, and lines 190-209 run without an exception
MainCall ==
    /\ pc = "idle"
    /\ pc' = "connecting"
    /\ UNCHANGED <<platform, decodeVars, backoff, failures, delay, message, calls, line>>

\* line 267 with an exception out of lines 190-209 (the address, the SSL
\* context), then lines 269-272: main starts its sleep
MainCallFails ==
    /\ pc = "idle"
    /\ failures < MaxFailures
    /\ failures' = failures + 1
    /\ delay' = backoff
    /\ pc' = "main_sleep"
    /\ UNCHANGED <<platform, decodeVars, backoff, message, calls, line>>

\* lines 272-273: the sleep of main is over
MainWake ==
    /\ pc = "main_sleep"
    /\ backoff' = Min(backoff * 2, BackoffCap)
    /\ delay' = 0
    /\ pc' = "idle"
    /\ UNCHANGED <<platform, decodeVars, failures, message, calls, line>>

\* lines 213-218: the handshake succeeds
ConnectOk ==
    /\ pc = "connecting"
    /\ failures' = 0
    /\ pc' = "recv"
    /\ UNCHANGED <<platform, decodeVars, backoff, delay, message, calls, line>>

\* lines 213-218 raise (handshake failure, network error); lines 253-256
ConnectFails ==
    /\ pc = "connecting"
    /\ failures < MaxFailures
    /\ failures' = failures + 1
    /\ delay' = RetrySleep
    /\ pc' = "retry_sleep"
    /\ UNCHANGED <<platform, decodeVars, backoff, message, calls, line>>

\* line 256 returns; back to line 211
RetryWake ==
    /\ pc = "retry_sleep"
    /\ delay' = 0
    /\ pc' = "connecting"
    /\ UNCHANGED <<platform, decodeVars, backoff, failures, message, calls, line>>

\* lines 221-225 and the fall-through of a str that is not "ping"
RecvText ==
    /\ pc = "recv"
    /\ \E m \in {x \in Messages : x.kind = "text"} : message' = m
    /\ calls' = <<>>
    /\ line' = NoLine
    /\ UNCHANGED <<platform, decodeVars, pc, backoff, failures, delay>>

\* lines 221-246 for a bytes message
RecvBinary ==
    /\ pc = "recv"
    /\ \E m \in {x \in Messages : x.kind = "bytes"} :
          /\ message' = m
          /\ LET r == Processed(m, platform)
             IN  /\ calls' = r.calls
                 /\ line' = r.line
    /\ UNCHANGED <<platform, decodeVars, pc, backoff, failures, delay>>

\* lines 249-252: any other exception while receiving or processing
RecvError ==
    /\ pc = "recv"
    /\ message' = <<>>
    /\ calls' = <<>>
    /\ line' = NoLine
    /\ UNCHANGED <<platform, decodeVars, pc, backoff, failures, delay>>

\* lines 247-248: ConnectionClosed leaves the receive loop and the `async
\* with`; the outer loop connects again at once
RecvClosed ==
    /\ pc = "recv"
    /\ failures < MaxFailures
    /\ failures' = failures + 1
    /\ message' = <<>>
    /\ calls' = <<>>
    /\ line' = NoLine
    /\ pc' = "connecting"
    /\ UNCHANGED <<platform, decodeVars, backoff, delay>>

Next ==
    \/ MainCall \/ MainCallFails \/ MainWake
    \/ ConnectOk \/ ConnectFails \/ RetryWake
    \/ RecvText \/ RecvBinary \/ RecvError \/ RecvClosed

Spec == Init /\ [][Next]_vars

----------------------------------------------------------------------------
(* Properties of the session, checked under Spec *)

\* C3: the sleep before a reconnect attempt after the k-th consecutive
\* connection failure lasts min(2^(k-1), 60): 1, 2, 4, ... capped at 60.
C3_ExponentialBackoff ==
    pc \in {"main_sleep", "retry_sleep"} => delay = Min(Pow2(failures - 1), BackoffCap)

\* the token stands at 0-based index i of m, and nowhere before
FirstTokenAt(m, i) ==
    /\ i + 5 <= Len(m)
    /\ \A k \in 1..5 : m[i + k] = PairsToken[k]
    /\ \A j \in 0..(i - 1) : \E k \in 1..5 : m[j + k] # PairsToken[k]

HasHeaderAndToken(msg) ==
    /\ msg # <<>>
    /\ msg.kind = "bytes"
    /\ Len(msg.body) >= 8
    /\ \A k \in 1..8 : msg.body[k] = MagicHeader[k]
    /\ \E i \in 0..(Len(msg.body) - 5) : FirstTokenAt(msg.body, i)

\* C4 as stated: the first slice handed to decode_pair begins 5 bytes after
\* the end of the first occurrence of the token.
C4_FiveBytesAfterTokenEnd ==
    (HasHeaderAndToken(message) /\ calls # <<>>) =>
        \E i \in 0..(Len(message.body) - 5) :
            FirstTokenAt(message.body, i) /\ calls[1] = (i + 5) + 5

\* C4 as amended: the first slice handed to decode_pair begins right behind
\* the first occurrence of the token, 5 bytes after the token's first byte.
C4_RightBehindToken ==
    (HasHeaderAndToken(message) /\ calls # <<>>) =>
        \E i \in 0..(Len(message.body) - 5) :
            FirstTokenAt(message.body, i) /\ calls[1] = i + 5

C4_Witness ==
    /\ HasHeaderAndToken(message)
    /\ calls # <<>>
    /\ calls[1] = Len(MagicHeader) + 5
    /\ \E j \in calls[1]..(Len(message.body) - 5) :
          \A k \in 1..5 : message.body[j + k] = PairsToken[k]

\* the results of decode_pair on the consecutive 512-byte slices of m from
\* 0-based offset `from` on, the last slice possibly shorter
SliceResults(m, from, host) ==
    LET n == IF from >= Len(m) THEN 0 ELSE (Len(m) - from + SliceSize - 1) \div SliceSize
    IN  [k \in 1..n |->
            decode_pair(SubSeq(m, from + (k - 1) * SliceSize + 1,
                               Min(from + k * SliceSize, Len(m))), host)]

IsRecord(r) == r.tag = "Record"

\* C7: what is printed for a bytes message is the sequence, in slice order, of
\* the Records decode_pair returns for the slices of the record section;
\* nothing is printed when there is none, or when the header or the token is
\* missing; in every case the session stays in its receive loop.
C7_LineIsTheRecordsInOrder ==
    (message # <<>> /\ message.kind = "bytes") =>
        /\ pc = "recv"
        /\ IF HasHeaderAndToken(message)
           THEN LET i == CHOOSE i \in 0..(Len(message.body) - 5) :
                            FirstTokenAt(message.body, i)
                    records == SelectSeq(SliceResults(message.body, i + 5, platform),
                                         IsRecord)
                IN  IF records = <<>> THEN line = NoLine
                    ELSE /\ line.tag = "Line"
                         /\ line.type = "pairs"
                         /\ line.pairs = [k \in 1..Len(records) |-> records[k].pair]
           ELSE line = NoLine /\ calls = <<>>

C7_Witness ==
    /\ pc = "recv"
    /\ Len(calls) = 3
    /\ line.tag = "Line"
    /\ Len(line.pairs) = 2
    /\ "pairCreatedAt" \notin DOMAIN line.pairs[1]
    /\ "pairCreatedAt" \in DOMAIN line.pairs[2]

====
